---------------------------- MODULE Spec2Model ----------------------------
(***************************************************************************)
(* Model of the GMS KPI dashboard (src/app.py): the workbook loader, the   *)
(* session that holds the loaded dataset, and the filter / group / search *)
(* / quarterly computations of the tabs.                                   *)
(*                                                                         *)
(* Values.  A cell of a workbook or of a DataFrame is a tagged record      *)
(*   [kind, num, text]: kind "num" carries num, kind "str" carries text,   *)
(*   kind "nan" is a missing value (NaN).  A DataFrame is the sequence of  *)
(*   its rows, a row a function from column names to cells.  Python's None *)
(*   is the empty tuple and a present value v is <<v>>.  A float that is   *)
(*   the quotient of two integers is kept exact as [n, d] with d > 0.      *)
(***************************************************************************)
EXTENDS Integers, Sequences, FiniteSets, TLC

VARIABLES
    uploaded_file,      \* value of st.file_uploader: None or <<workbook>>
    session_df,         \* st.session_state.df: None or <<DataFrame>>
    session_file_name,  \* st.session_state.file_name: None or <<name>>
    messages,           \* st.error / warning / info / success shown by the last run
    load_ret,           \* the last call of load_data: [called, error, df]
    view                \* the last value computed by a tab or helper

vars == <<uploaded_file, session_df, session_file_name, messages, load_ret, view>>

\* Largest number of data rows of a workbook.
MaxRows == 2

None == <<>>
Some(v) == <<v>>

Columns ==
    {"KWARTAAL", "PROVINSIE", "DISTRIK", "STREEK", "ANKERGEMEENSKAP",
     "2026 FOKUS", "2030 TOEKOMSVISIE", "PROJEKEIENAAR",
     "BESKRYWING VAN PROJEK", "TEIKEN", "UITSET", "% BEHAAL"}

NumericColumns == {"TEIKEN", "UITSET", "% BEHAAL"}

SheetName == "2026 BEPLANNING"

NaN == [kind |-> "nan", num |-> 0, text |-> ""]
Num(n) == [kind |-> "num", num |-> n, text |-> ""]
Str(s) == [kind |-> "str", num |-> 0, text |-> s]

isna(c) == c.kind = "nan"

\* The texts of this model that Python's float() parses.
NumericText == [s \in {"5", "10"} |-> IF s = "5" THEN 5 ELSE 10]

(***************************************************************************)
(* DataFrame helpers (pandas).                                             *)
(***************************************************************************)

\* df[mask], the rows that satisfy the mask in their order, is SelectSeq.

\* A column read from a sheet has dtype object when a cell of it is a string;
\* a column of numbers and blanks is float64.  The column of a sheet without
\* data rows is read as object.
dtype_is_object(df, col) ==
    \/ df = <<>>
    \/ \E i \in DOMAIN df : df[i][col].kind = "str"

\* pd.to_numeric(..., errors="coerce") on one cell.
to_numeric(c) ==
    IF c.kind = "num" THEN c
    ELSE IF c.kind = "str" /\ c.text \in DOMAIN NumericText THEN Num(NumericText[c.text])
    ELSE NaN

to_numeric_column(df, col) ==
    [i \in DOMAIN df |-> [df[i] EXCEPT ![col] = to_numeric(@)]]

\* The filled column is not assigned back to the frame.
fillna_column_not_assigned(df, col, value) == df

\* df[col].fillna(value), assigned to df[col].
fillna_column(df, col, value) ==
    [i \in DOMAIN df |-> [df[i] EXCEPT ![col] = IF isna(@) THEN Str(value) ELSE @]]

(***************************************************************************)
(* load_data                                                               *)
(***************************************************************************)

\* pd.read_excel(uploaded_file, sheet_name="2026 BEPLANNING") raises for a
\* source that is no workbook (an empty source included) and for a workbook
\* without the sheet.
read_excel_raises(wb) == ~wb.readable \/ SheetName \notin wb.sheets

\* The three conversions of lines 39-41, in order.
ensure_numeric(df) ==
    to_numeric_column(to_numeric_column(to_numeric_column(df, "TEIKEN"), "UITSET"), "% BEHAAL")

\* The loop of lines 44-46 over the columns in cols.
RECURSIVE fill_object_columns(_, _)
fill_object_columns(df, cols) ==
    IF cols = {} THEN df
    ELSE LET col == CHOOSE c \in cols : TRUE
             filled == IF dtype_is_object(df, col)
                       THEN fillna_column(df, col, "Onbekend")
                       ELSE df
         IN fill_object_columns(filled, cols \ {col})

\* The except branch returns an empty DataFrame.
load_data_empty_on_error(file) ==
    IF file = None THEN [error |-> FALSE, df |-> None]
    ELSE LET wb == file[1] IN
         IF read_excel_raises(wb) THEN [error |-> TRUE, df |-> Some(<<>>)]
         ELSE IF ~(NumericColumns \subseteq wb.header) THEN [error |-> TRUE, df |-> Some(<<>>)]
         ELSE [error |-> FALSE,
               df |-> Some(fill_object_columns(ensure_numeric(wb.rows), wb.header))]

\* load_data(uploaded_file): [error, df]; error is the st.error of line 51.
load_data(file) ==
    IF file = None THEN [error |-> FALSE, df |-> None]
    ELSE LET wb == file[1] IN
         IF read_excel_raises(wb) THEN [error |-> TRUE, df |-> None]
         ELSE IF ~(NumericColumns \subseteq wb.header) THEN [error |-> TRUE, df |-> None]
         ELSE [error |-> FALSE,
               df |-> Some(fill_object_columns(ensure_numeric(wb.rows), wb.header))]

(***************************************************************************)
(* Workbooks of the session specification.                                 *)
(***************************************************************************)

DefaultRow ==
    [c \in Columns |->
        CASE c = "KWARTAAL" -> Str("K1")
          [] c = "PROVINSIE" -> Str("Gauteng")
          [] c = "DISTRIK" -> Str("Tshwane")
          [] c = "STREEK" -> Str("Noord")
          [] c = "ANKERGEMEENSKAP" -> Str("Pretoria")
          [] c = "2026 FOKUS" -> Str("Groei")
          [] c = "2030 TOEKOMSVISIE" -> Str("Visie A")
          [] c = "PROJEKEIENAAR" -> Str("Anna")
          [] c = "BESKRYWING VAN PROJEK" -> Str("Projek")
          [] c = "TEIKEN" -> Num(10)
          [] c = "UITSET" -> Num(5)
          [] c = "% BEHAAL" -> Num(50)]

\* All sequences of at most n rows drawn from rows.
RECURSIVE SeqsUpTo(_, _)
SeqsUpTo(rows, n) ==
    IF n = 0 THEN {<<>>}
    ELSE LET shorter == SeqsUpTo(rows, n - 1)
         IN shorter \cup {Append(s, r) : s \in shorter, r \in rows}

Sheet(name, rows) ==
    [name |-> name, readable |-> TRUE, sheets |-> {SheetName},
     header |-> Columns, rows |-> rows]

\* Rows with a cell that is no number, a number written as text, a blank
\* numeric cell and a blank text cell.
LoadRows ==
    {DefaultRow,
     [DefaultRow EXCEPT !["TEIKEN"] = Str("n/a")],
     [DefaultRow EXCEPT !["UITSET"] = Str("5")],
     [DefaultRow EXCEPT !["% BEHAAL"] = NaN],
     [DefaultRow EXCEPT !["PROVINSIE"] = NaN],
     [DefaultRow EXCEPT !["PROVINSIE"] = NaN, !["% BEHAAL"] = Str("n/a")]}

\* Sources that make read_excel or the column access raise.
BrokenWorkbooks ==
    {[Sheet("leeg.xlsx", <<>>) EXCEPT !.readable = FALSE, !.sheets = {}, !.header = {}],
     [Sheet("geen_blad.xlsx", <<>>) EXCEPT !.sheets = {"Sheet1"}, !.header = {}],
     [Sheet("lee_blad.xlsx", <<>>) EXCEPT !.header = {}],
     [Sheet("geen_teiken.xlsx", <<>>) EXCEPT !.header = Columns \ {"TEIKEN"}]}

SessionWorkbooks ==
    BrokenWorkbooks \cup {Sheet("data.xlsx", rows) : rows \in SeqsUpTo(LoadRows, MaxRows)}

(***************************************************************************)
(* main: the session and the upload gate (lines 139-173).                  *)
(***************************************************************************)

NoLoad == [called |-> FALSE, error |-> FALSE, df |-> None]
NoView == [op |-> "none"]

Init ==
    /\ uploaded_file = None
    /\ session_df = None
    /\ session_file_name = None
    /\ messages = {}
    /\ load_ret = NoLoad
    /\ view = NoView

\* The uploader shown also when a dataset is loaded.
SelectFile_without_gate ==
    /\ \E f \in {None} \cup {Some(wb) : wb \in SessionWorkbooks} :
        /\ f # uploaded_file
        /\ uploaded_file' = f
    /\ messages' = {"info"}
    /\ load_ret' = NoLoad
    /\ UNCHANGED <<session_df, session_file_name, view>>

\* A run in which the user changed the value of the uploader and did not
\* click: lines 148-173 with load_clicked false.
SelectFile ==
    /\ session_df = None
    /\ \E f \in {None} \cup {Some(wb) : wb \in SessionWorkbooks} :
        /\ f # uploaded_file
        /\ uploaded_file' = f
    /\ messages' = {"info"}
    /\ load_ret' = NoLoad
    /\ UNCHANGED <<session_df, session_file_name, view>>

\* The click with the test "df is not None" alone at line 161.
ClickLoad_stores_empty ==
    /\ session_df = None
    /\ IF uploaded_file = None
       THEN /\ messages' = {"warning", "info"}
            /\ load_ret' = NoLoad
            /\ UNCHANGED <<session_df, session_file_name>>
       ELSE LET ret == load_data(uploaded_file) IN
            /\ load_ret' = [called |-> TRUE, error |-> ret.error, df |-> ret.df]
            /\ IF ret.df # None
               THEN /\ session_df' = ret.df
                    /\ session_file_name' = Some(uploaded_file[1].name)
                    /\ messages' = {"success"}
               ELSE /\ session_df' = None
                    /\ session_file_name' = None
                    /\ messages' = (IF ret.error THEN {"error"} ELSE {}) \cup {"info"}
    /\ UNCHANGED <<uploaded_file, view>>

\* A run in which the user clicked "Laai data": lines 156-173, and after the
\* st.rerun of line 165 the run that shows the summary of lines 178-183.
ClickLoad ==
    /\ session_df = None
    /\ IF uploaded_file = None
       THEN /\ messages' = {"warning", "info"}
            /\ load_ret' = NoLoad
            /\ UNCHANGED <<session_df, session_file_name>>
       ELSE LET ret == load_data(uploaded_file) IN
            /\ load_ret' = [called |-> TRUE, error |-> ret.error, df |-> ret.df]
            /\ IF ret.df # None /\ ret.df[1] # <<>>
               THEN /\ session_df' = ret.df
                    /\ session_file_name' = Some(uploaded_file[1].name)
                    /\ messages' = {"success"}
               ELSE /\ session_df' = None
                    /\ session_file_name' = None
                    /\ messages' = (IF ret.error THEN {"error"} ELSE {}) \cup {"info"}
    /\ UNCHANGED <<uploaded_file, view>>

\* A run without a click once the data is loaded: lines 178-190.
Rerun ==
    /\ session_df # None
    /\ messages' = IF session_df[1] = <<>> THEN {"success", "warning"} ELSE {"success"}
    /\ load_ret' = NoLoad
    /\ UNCHANGED <<uploaded_file, session_df, session_file_name, view>>

Next == SelectFile \/ ClickLoad \/ Rerun

Spec == Init /\ [][Next]_vars

(***************************************************************************)
(* Properties of load_data and of the session.                             *)
(***************************************************************************)

\* The workbook of the last call of load_data.
LoadedWorkbook == uploaded_file[1]

LoadSucceeded == load_ret.called /\ load_ret.df # None

\* C8: every dataset a successful load_data returns has only numbers and
\* missing values in TEIKEN, UITSET and % BEHAAL (a cell that does not parse
\* is missing, and the load succeeds whenever the sheet and the three columns
\* exist), and a column that holds text holds no missing value: every blank
\* cell of it reads "Onbekend".
C8_LoadedDatasetClean ==
    /\ (load_ret.called /\ LoadedWorkbook.readable /\ SheetName \in LoadedWorkbook.sheets
            /\ LoadedWorkbook.header = Columns) => load_ret.df # None
    /\ LoadSucceeded =>
        LET raw == LoadedWorkbook.rows
            df == load_ret.df[1]
        IN /\ Len(df) = Len(raw)
           /\ \A i \in DOMAIN df :
                /\ \A c \in NumericColumns :
                     /\ df[i][c].kind \in {"num", "nan"}
                     /\ raw[i][c].kind = "num" => df[i][c] = raw[i][c]
                     /\ raw[i][c] \in {NaN, Str("n/a")} => df[i][c] = NaN
                /\ \A c \in Columns \ NumericColumns :
                     (\E j \in DOMAIN df : df[j][c].kind = "str") =>
                        /\ df[i][c].kind # "nan"
                        /\ raw[i][c] = NaN => df[i][c] = Str("Onbekend")
                        /\ raw[i][c] # NaN => df[i][c] = raw[i][c]

\* A load of a sheet with a cell that does not parse and with a text column
\* that has a blank cell next to a text cell.
C8_Witness ==
    /\ LoadSucceeded
    /\ \E i, j, k \in DOMAIN LoadedWorkbook.rows :
        /\ LoadedWorkbook.rows[i]["TEIKEN"] = Str("n/a")
        /\ LoadedWorkbook.rows[j]["PROVINSIE"] = NaN
        /\ LoadedWorkbook.rows[k]["PROVINSIE"].kind = "str"

\* A source whose load fails: no workbook can be read from it (an empty
\* source included), the workbook has no sheet "2026 BEPLANNING", or the
\* sheet is empty.  (A sheet with a header row and no data rows is loaded:
\* load_data returns its zero rows, which ClickLoad does not store.)
LoadFails(wb) == ~wb.readable \/ SheetName \notin wb.sheets \/ wb.header = {}

FailedLoad == load_ret.called /\ LoadFails(LoadedWorkbook)

\* C9: when loading fails (sheet absent, workbook unreadable, source empty)
\* load_data reports an error and returns no dataset, neither an empty nor a
\* partly filled one, and the session holds after the attempt what it held
\* before it; that is no dataset, as a load is offered only while none is
\* held.
C9_FailedLoadReportsError ==
    /\ [](FailedLoad =>
            /\ load_ret.df = None
            /\ load_ret.error
            /\ "error" \in messages)
    /\ [][FailedLoad' =>
            /\ session_df' = session_df
            /\ session_file_name' = session_file_name]_vars

\* A failed load: the workbook has no sheet "2026 BEPLANNING".
C9_Witness ==
    /\ FailedLoad
    /\ "error" \in messages
    /\ session_df = None
    /\ LoadedWorkbook.readable
    /\ SheetName \notin LoadedWorkbook.sheets

(***************************************************************************)
(* apply_filters (lines 55-71).  A filter argument is None or <<S>>, S the *)
(* set of the selected values.                                             *)
(***************************************************************************)

\* Python's truth value of a filter argument: None and the empty list are false.
truthy(filter) == filter # None /\ filter[1] # {}

\* Series.isin(values) on one cell.
isin(c, values) == c.kind = "str" /\ c.text \in values

\* The column the fourth filter reads is that of the third.
apply_filters_wrong_column(df, kwartaal_filter, provinsie_filter, fokus_filter, visie_filter) ==
    LET keep1(r) == isin(r["KWARTAAL"], kwartaal_filter[1])
        keep2(r) == isin(r["PROVINSIE"], provinsie_filter[1])
        keep3(r) == isin(r["2026 FOKUS"], fokus_filter[1])
        keep4(r) == isin(r["2026 FOKUS"], visie_filter[1])
        df1 == IF truthy(kwartaal_filter) THEN SelectSeq(df, keep1) ELSE df
        df2 == IF truthy(provinsie_filter) THEN SelectSeq(df1, keep2) ELSE df1
        df3 == IF truthy(fokus_filter) THEN SelectSeq(df2, keep3) ELSE df2
    IN IF truthy(visie_filter) THEN SelectSeq(df3, keep4) ELSE df3

apply_filters(df, kwartaal_filter, provinsie_filter, fokus_filter, visie_filter) ==
    LET keep1(r) == isin(r["KWARTAAL"], kwartaal_filter[1])
        keep2(r) == isin(r["PROVINSIE"], provinsie_filter[1])
        keep3(r) == isin(r["2026 FOKUS"], fokus_filter[1])
        keep4(r) == isin(r["2030 TOEKOMSVISIE"], visie_filter[1])
        df1 == IF truthy(kwartaal_filter) THEN SelectSeq(df, keep1) ELSE df
        df2 == IF truthy(provinsie_filter) THEN SelectSeq(df1, keep2) ELSE df1
        df3 == IF truthy(fokus_filter) THEN SelectSeq(df2, keep3) ELSE df2
    IN IF truthy(visie_filter) THEN SelectSeq(df3, keep4) ELSE df3

\* The datasets load_data returns for the sheets of at most MaxRows rows
\* drawn from rows, those without rows left out.
LoadedDatasets(rows) ==
    {load_data(Some(Sheet("data.xlsx", sheet))).df : sheet \in SeqsUpTo(rows, MaxRows) \ {<<>>}}

FilterRows ==
    {[DefaultRow EXCEPT !["KWARTAAL"] = Str(k), !["PROVINSIE"] = Str(p),
                        !["2026 FOKUS"] = Str(f), !["2030 TOEKOMSVISIE"] = Str(v)] :
        k \in {"K1", "K2"}, p \in {"Gauteng", "Limpopo"},
        f \in {"Groei", "Sorg"}, v \in {"Visie A", "Visie B"}}

KwartaalSelections == {None, Some({}), Some({"K1"}), Some({"K2", "K3"})}
ProvinsieSelections == {None, Some({}), Some({"Gauteng"})}
FokusSelections == {None, Some({}), Some({"Groei"})}
VisieSelections == {None, Some({}), Some({"Visie B"})}

\* The session once data.xlsx is loaded.
InitLoaded(datasets) ==
    /\ uploaded_file = None
    /\ session_df \in datasets
    /\ session_file_name = Some("data.xlsx")
    /\ messages = {"success"}
    /\ load_ret = NoLoad
    /\ view = NoView

InitFilters == InitLoaded(LoadedDatasets(FilterRows))

\* The script starts a new run: the page of the last run is cleared.
NewRun ==
    /\ view # NoView
    /\ view' = NoView
    /\ UNCHANGED <<uploaded_file, session_df, session_file_name, messages, load_ret>>

\* A run that calls apply_filters on the session's dataset.
ApplyFilters ==
    /\ session_df # None
    /\ view = NoView
    /\ \E k \in KwartaalSelections, p \in ProvinsieSelections,
          f \in FokusSelections, v \in VisieSelections :
        view' = [op |-> "apply_filters", kwartaal |-> k, provinsie |-> p,
                 fokus |-> f, visie |-> v,
                 result |-> apply_filters(session_df[1], k, p, f, v)]
    /\ UNCHANGED <<uploaded_file, session_df, session_file_name, messages, load_ret>>

NextFilters == NewRun \/ ApplyFilters

SpecFilters == InitFilters /\ [][NextFilters]_vars

\* A row passes a selection when the selection is absent or empty, or holds
\* the row's value of the column.
Passes(r, col, selection) ==
    \/ selection = None
    \/ selection[1] = {}
    \/ (r[col].kind = "str" /\ r[col].text \in selection[1])

\* seq is sub, with rows left out: the rows of sub are rows of seq in their
\* relative order.
RECURSIVE IsSubsequence(_, _)
IsSubsequence(sub, seq) ==
    IF sub = <<>> THEN TRUE
    ELSE IF seq = <<>> THEN FALSE
    ELSE IF Head(sub) = Head(seq) THEN IsSubsequence(Tail(sub), Tail(seq))
    ELSE IsSubsequence(sub, Tail(seq))

PassesAll(r) ==
    /\ Passes(r, "KWARTAAL", view.kwartaal)
    /\ Passes(r, "PROVINSIE", view.provinsie)
    /\ Passes(r, "2026 FOKUS", view.fokus)
    /\ Passes(r, "2030 TOEKOMSVISIE", view.visie)

\* C1: apply_filters returns exactly the rows of the dataset that pass all
\* four selections, in their original order; a selection that is absent or
\* empty restricts nothing, and without restrictions the dataset comes back
\* unchanged.
C1_ApplyFilters ==
    view.op = "apply_filters" =>
        /\ IsSubsequence(view.result, session_df[1])
        /\ \A i \in DOMAIN view.result : PassesAll(view.result[i])
        /\ Len(view.result) = Cardinality({k \in DOMAIN session_df[1] : PassesAll(session_df[1][k])})
        /\ (~truthy(view.kwartaal) /\ ~truthy(view.provinsie) /\ ~truthy(view.fokus)
                /\ ~truthy(view.visie)) => view.result = session_df[1]

\* Two rows of which the filters on all four columns keep the second only.
C1_Witness ==
    /\ view.op = "apply_filters"
    /\ truthy(view.kwartaal) /\ truthy(view.provinsie)
    /\ truthy(view.fokus) /\ truthy(view.visie)
    /\ Len(session_df[1]) = 2
    /\ view.result = <<session_df[1][2]>>
    /\ session_df[1][1] # session_df[1][2]

(***************************************************************************)
(* Python's order of strings, for the texts of this model: by code point,  *)
(* character by character.                                                 *)
(***************************************************************************)

\* The characters of the model's texts in code point order.
Alphabet == " %./0123456789ABCDEFGHIJKLMNOPQRSTUVWXYZ_abcdefghijklmnopqrstuvwxyz"

RECURSIVE ord_from(_, _, _)
ord_from(ch, rest, i) ==
    IF rest = "" THEN 0
    ELSE IF Head(rest) = ch THEN i
    ELSE ord_from(ch, Tail(rest), i + 1)

\* ord(ch), up to the order.
ord(ch) == ord_from(ch, Alphabet, 1)

\* s < t for two Python strings.
RECURSIVE str_lt(_, _)
str_lt(s, t) ==
    IF t = "" THEN FALSE
    ELSE IF s = "" THEN TRUE
    ELSE IF Head(s) = Head(t) THEN str_lt(Tail(s), Tail(t))
    ELSE ord(Head(s)) < ord(Head(t))

\* sorted(S) for a set of strings.
RECURSIVE sorted(_)
sorted(S) ==
    IF S = {} THEN <<>>
    ELSE LET least == CHOOSE s \in S : \A t \in S \ {s} : str_lt(s, t)
         IN <<least>> \o sorted(S \ {least})

(***************************************************************************)
(* Floats that are quotients of integers: [n, d], d > 0.  NaN is None.     *)
(***************************************************************************)

Quot(n, d) == Some([n |-> n, d |-> d])

float_lt(a, b) == a.n * b.d < b.n * a.d
float_eq(a, b) == a.n * b.d = b.n * a.d

\* f"{val:.1f}" of a quotient that is not negative: rounded to the nearest
\* tenth, a tie to the even one.  (The ties of this model are multiples of
\* 1/4, which a float holds exactly.)
one_decimal(q) ==
    LET whole == (10 * q.n) \div q.d
        rest == (10 * q.n) % q.d
        tenths == IF 2 * rest > q.d THEN whole + 1
                  ELSE IF 2 * rest = q.d THEN whole + (whole % 2)
                  ELSE whole
    IN ToString(tenths \div 10) \o "." \o ToString(tenths % 10)

\* format_percentage (lines 118-122).
format_percentage(val) ==
    IF val = None THEN "-" ELSE one_decimal(val[1]) \o "%"

(***************************************************************************)
(* calculate_group_metrics (lines 74-115).                                 *)
(***************************************************************************)

\* The values of a numeric column that are present, over the rows of df.
RECURSIVE present_values(_, _)
present_values(df, col) ==
    IF df = <<>> THEN <<>>
    ELSE IF isna(Head(df)[col]) THEN present_values(Tail(df), col)
    ELSE <<Head(df)[col].num>> \o present_values(Tail(df), col)

RECURSIVE total(_)
total(values) == IF values = <<>> THEN 0 ELSE Head(values) + total(Tail(values))

\* Series.sum(): missing values are skipped, the sum of none is 0.
agg_sum(df, col) == total(present_values(df, col))

\* Series.count(): the number of values that are not missing.
agg_count(df, col) == Len(present_values(df, col))

\* The mean with a missing value counted as 0.
agg_mean_all_rows(df, col) ==
    IF df = <<>> THEN None ELSE Quot(agg_sum(df, col), Len(df))

\* Series.mean(): over the values that are not missing, NaN when there is none.
agg_mean(df, col) ==
    IF agg_count(df, col) = 0 THEN None
    ELSE Quot(agg_sum(df, col), agg_count(df, col))

\* df.groupby(col): the keys are the distinct values that are not missing,
\* in sorted order.
group_keys(df, col) ==
    sorted({df[i][col].text : i \in {j \in DOMAIN df : ~isna(df[j][col])}})

group_rows(df, col, key) ==
    LET in_group(r) == ~isna(r[col]) /\ r[col].text = key
    IN SelectSeq(df, in_group)

\* Lines 94-112: one row per group; index is the row label reset_index gives.
\*   group = the group column, mean = "Gem. % BEHAAL", count = "Aantal
\*   KPI-items", teiken = "Totale Teiken", uitset = "Totale Uitset".
group_agg(df, group_col) ==
    LET keys == group_keys(df, group_col)
    IN [i \in DOMAIN keys |->
          LET rows == group_rows(df, group_col, keys[i])
          IN [index |-> i - 1,
              group |-> keys[i],
              mean |-> agg_mean(rows, "% BEHAAL"),
              count |-> agg_count(rows, "% BEHAAL"),
              teiken |-> agg_sum(rows, "TEIKEN"),
              uitset |-> agg_sum(rows, "UITSET")]]

Orderings(n) ==
    {p \in [1..n -> 1..n] : \A i, j \in 1..n : i # j => p[i] # p[j]}

\* The sort with na_position="first".
sort_values_mean_na_first(summary) ==
    LET n == Len(summary)
        ok(p) == \A i, j \in 1..n : i < j =>
                    LET a == summary[p[i]]
                        b == summary[p[j]]
                    IN /\ b.mean = None => (a.mean = None /\ p[i] < p[j])
                       /\ (a.mean # None /\ b.mean # None) => ~float_lt(b.mean[1], a.mean[1])
    IN {[i \in 1..n |-> summary[p[i]]] : p \in {q \in Orderings(n) : ok(q)}}

\* DataFrame.sort_values("Gem. % BEHAAL"): ascending, the rows with NaN last
\* in their order, the others by numpy's quicksort, which fixes no order
\* between equal keys: the set of the frames the sort may give.
sort_values_mean(summary) ==
    LET n == Len(summary)
        ok(p) == \A i, j \in 1..n : i < j =>
                    LET a == summary[p[i]]
                        b == summary[p[j]]
                    IN /\ a.mean = None => (b.mean = None /\ p[i] < p[j])
                       /\ (a.mean # None /\ b.mean # None) => ~float_lt(b.mean[1], a.mean[1])
    IN {[i \in 1..n |-> summary[p[i]]] : p \in {q \in Orderings(n) : ok(q)}}

\* The frames calculate_group_metrics(df, group_col) may return.
calculate_group_metrics(df, group_col) ==
    IF df = <<>> THEN {<<>>}
    ELSE sort_values_mean(group_agg(df, group_col))

(***************************************************************************)
(* render_strategy_tab (lines 316-333) and the headline selection of       *)
(* render_executive_overview (lines 236-259).                              *)
(***************************************************************************)

\* Series.idxmax() on "Gem. % BEHAAL": the row label of the first row, in the
\* frame's order, that holds the largest value, NaN skipped.  With no value
\* but NaN there is no such label: idxmax gives NaN, or raises ValueError.
has_max(summary) == \E i \in DOMAIN summary : summary[i].mean # None

idxmax(summary) ==
    LET defined == {i \in DOMAIN summary : summary[i].mean # None}
        largest == {i \in defined :
                      \A j \in defined : ~float_lt(summary[i].mean[1], summary[j].mean[1])}
        first == CHOOSE i \in largest : \A j \in largest : i <= j
    IN summary[first].index

\* summary.loc[idx]
loc(summary, idx) ==
    summary[CHOOSE i \in DOMAIN summary : summary[i].index = idx]

\* Lines 240-242 and 251-253: [raised, row]; .loc raises KeyError for the
\* label NaN.
best_group(summary) ==
    IF summary = <<>> THEN [raised |-> FALSE, row |-> None]
    ELSE IF ~has_max(summary) THEN [raised |-> TRUE, row |-> None]
    ELSE [raised |-> FALSE, row |-> Some(loc(summary, idxmax(summary)))]

\* Sheets for the group summaries: three group labels, one of them blank,
\* and values that are present or missing.
MetricRows ==
    {[DefaultRow EXCEPT !["2030 TOEKOMSVISIE"] = v, !["TEIKEN"] = tu[1],
                        !["UITSET"] = tu[2], !["% BEHAAL"] = b] :
        v \in {Str("Visie A"), Str("Visie B"), NaN},
        tu \in {<<Num(10), Num(5)>>, <<Num(20), Num(15)>>, <<NaN, NaN>>},
        b \in {Num(50), Num(100), NaN}}

GroupingModes == {"2030 TOEKOMSVISIE", "2026 FOKUS"}

InitMetrics == InitLoaded(LoadedDatasets(MetricRows))

\* A run that shows the strategy tab for one grouping.
RenderStrategyTab ==
    /\ view = NoView
    /\ \E grouping_mode \in GroupingModes :
       \E grouped \in calculate_group_metrics(session_df[1], grouping_mode) :
        view' = [op |-> "render_strategy_tab",
                 group_col |-> grouping_mode,
                 grouped |-> grouped,
                 display |-> [i \in DOMAIN grouped |-> format_percentage(grouped[i].mean)]]
    /\ UNCHANGED <<uploaded_file, session_df, session_file_name, messages, load_ret>>

\* A run that shows the executive overview: the two headline groups.  An
\* exception ends the run: raised, and what lines after it compute is None.
RenderExecutiveOverview ==
    /\ view = NoView
    /\ \E visie_grouped \in calculate_group_metrics(session_df[1], "2030 TOEKOMSVISIE") :
       \E fokus_grouped \in calculate_group_metrics(session_df[1], "2026 FOKUS") :
        LET best_visie == best_group(visie_grouped)
            best_fokus == IF best_visie.raised THEN [raised |-> TRUE, row |-> None]
                          ELSE best_group(fokus_grouped)
        IN view' = [op |-> "render_executive_overview",
                    visie_grouped |-> visie_grouped,
                    fokus_grouped |-> fokus_grouped,
                    raised |-> best_visie.raised \/ best_fokus.raised,
                    best_visie |-> best_visie.row,
                    best_fokus |-> best_fokus.row]
    /\ UNCHANGED <<uploaded_file, session_df, session_file_name, messages, load_ret>>

NextMetrics == NewRun \/ RenderStrategyTab \/ RenderExecutiveOverview

SpecMetrics == InitMetrics /\ [][NextMetrics]_vars

(***************************************************************************)
(* Properties of the group summaries.                                      *)
(***************************************************************************)

\* The indices of the rows of the session's dataset whose value of col is key.
RowsOfGroup(col, key) ==
    {i \in DOMAIN session_df[1] : session_df[1][i][col] = Str(key)}

\* The distinct values of col in the session's dataset.
ValuesOf(col) ==
    {session_df[1][i][col].text : i \in {j \in DOMAIN session_df[1] : ~isna(session_df[1][j][col])}}

\* The sum of the values of col over the rows in idx that have one.
RECURSIVE SumOver(_, _)
SumOver(idx, col) ==
    IF idx = {} THEN 0
    ELSE LET i == CHOOSE j \in idx : TRUE
         IN (IF isna(session_df[1][i][col]) THEN 0 ELSE session_df[1][i][col].num)
            + SumOver(idx \ {i}, col)

RECURSIVE SumCounts(_)
SumCounts(summary) ==
    IF summary = <<>> THEN 0 ELSE Head(summary).count + SumCounts(Tail(summary))

\* C2: the summary has exactly one row per distinct value of the grouping
\* column, each row's item count is the number of all rows of its group,
\* those without % BEHAAL included, and the counts add up to the number of
\* rows of the dataset.
C2_CountsAllRows ==
    view.op = "render_strategy_tab" =>
        /\ {view.grouped[i].group : i \in DOMAIN view.grouped} = ValuesOf(view.group_col)
        /\ Len(view.grouped) = Cardinality(ValuesOf(view.group_col))
        /\ \A i \in DOMAIN view.grouped :
             view.grouped[i].count
                = Cardinality(RowsOfGroup(view.group_col, view.grouped[i].group))
        /\ SumCounts(view.grouped) = Len(session_df[1])

\* C4: for a summary that is not empty the headline selection succeeds and
\* gives a group whose mean is the highest of all groups, the first such
\* group in the summary's order.
C4_BestGroupSucceeds ==
    (view.op = "render_executive_overview" /\ view.visie_grouped # <<>>) =>
        /\ ~view.raised
        /\ view.best_visie # None
        /\ \E i \in DOMAIN view.visie_grouped :
            /\ view.visie_grouped[i] = view.best_visie[1]
            /\ \A j \in DOMAIN view.visie_grouped :
                view.visie_grouped[j].mean # None =>
                    /\ view.best_visie[1].mean # None
                    /\ ~float_lt(view.best_visie[1].mean[1], view.visie_grouped[j].mean[1])
                    /\ (float_eq(view.best_visie[1].mean[1], view.visie_grouped[j].mean[1])
                            => i <= j)

Ascending(summary) ==
    \A i, j \in DOMAIN summary :
        (i < j /\ summary[i].mean # None /\ summary[j].mean # None)
            => ~float_lt(summary[j].mean[1], summary[i].mean[1])

\* C5 as stated: ascending by mean, a group without a mean before every
\* group with one (or left out), groups of equal mean in group-label order.
C5_AscendingNaNFirstStable ==
    view.op = "render_strategy_tab" =>
        /\ Ascending(view.grouped)
        /\ \A i, j \in DOMAIN view.grouped :
            (view.grouped[i].mean = None /\ view.grouped[j].mean # None) => i < j
        /\ \A i, j \in DOMAIN view.grouped :
            (i < j /\ view.grouped[i].mean # None /\ view.grouped[j].mean # None
                /\ float_eq(view.grouped[i].mean[1], view.grouped[j].mean[1]))
                => view.grouped[i].index < view.grouped[j].index

\* C5, amended: the rows are in ascending order of mean % BEHAAL; a group
\* whose mean is undefined comes after every group with a defined mean, such
\* groups in group-label order; no order is fixed between equal means.
C5_AscendingNaNLast ==
    view.op = "render_strategy_tab" =>
        /\ Ascending(view.grouped)
        /\ \A i, j \in DOMAIN view.grouped :
            (view.grouped[i].mean = None /\ view.grouped[j].mean # None) => j < i
        /\ \A i, j \in DOMAIN view.grouped :
            (i < j /\ view.grouped[i].mean = None /\ view.grouped[j].mean = None)
                => view.grouped[i].index < view.grouped[j].index

\* A summary with a group without a mean whose label sorts before that of a
\* group with a mean.
C5_Witness ==
    /\ view.op = "render_strategy_tab"
    /\ \E i, j \in DOMAIN view.grouped :
        /\ view.grouped[i].mean = None
        /\ view.grouped[j].mean # None
        /\ view.grouped[i].index < view.grouped[j].index

\* The dataset of the round-trip example: one group, all values present.
ExampleRows ==
    <<[DefaultRow EXCEPT !["TEIKEN"] = Num(10), !["UITSET"] = Num(5), !["% BEHAAL"] = Num(50)],
      [DefaultRow EXCEPT !["TEIKEN"] = Num(20), !["UITSET"] = Num(15), !["% BEHAAL"] = Num(100)]>>

\* C6: in every group the mean of % BEHAAL is the mean of the present values
\* and is absent, shown as "-", when there is none; the totals of TEIKEN and
\* UITSET are the sums of the present values; the example with all values
\* present gives mean 75.0 and the sums 30 and 20.
C6_MeanAndSumsSkipAbsent ==
    view.op = "render_strategy_tab" =>
        /\ \A i \in DOMAIN view.grouped :
            LET row == view.grouped[i]
                members == RowsOfGroup(view.group_col, row.group)
                present == {k \in members : ~isna(session_df[1][k]["% BEHAAL"])}
            IN /\ (row.mean = None) <=> (present = {})
               /\ (view.display[i] = "-") <=> (present = {})
               /\ row.mean # None =>
                    row.mean[1].n * Cardinality(present)
                        = row.mean[1].d * SumOver(present, "% BEHAAL")
               /\ row.teiken = SumOver(members, "TEIKEN")
               /\ row.uitset = SumOver(members, "UITSET")
        /\ session_df[1] = ExampleRows =>
            /\ Len(view.grouped) = 1
            /\ float_eq(view.grouped[1].mean[1], [n |-> 75, d |-> 1])
            /\ view.display[1] = "75.0%"
            /\ view.grouped[1].teiken = 30
            /\ view.grouped[1].uitset = 20

\* A group of two rows of which one has no value at all: the mean is that of
\* the other row and the totals are its values.
C6_Witness ==
    /\ view.op = "render_strategy_tab"
    /\ Len(session_df[1]) = 2
    /\ isna(session_df[1][2]["% BEHAAL"]) /\ isna(session_df[1][2]["TEIKEN"])
    /\ Len(view.grouped) = 1
    /\ view.grouped[1].mean = Quot(100, 1)
    /\ view.display[1] = "100.0%"
    /\ view.grouped[1].teiken = 20
    /\ view.grouped[1].uitset = 15

(***************************************************************************)
(* The project search of render_projects_tab (lines 527-550).              *)
(***************************************************************************)

UpperCase == "ABCDEFGHIJKLMNOPQRSTUVWXYZ"
LowerCase == "abcdefghijklmnopqrstuvwxyz"

RECURSIVE lower_char(_, _, _)
lower_char(ch, upper, lowers) ==
    IF upper = "" THEN ch
    ELSE IF Head(upper) = ch THEN Head(lowers)
    ELSE lower_char(ch, Tail(upper), Tail(lowers))

\* str.lower()
RECURSIVE lower(_)
lower(s) ==
    IF s = "" THEN ""
    ELSE lower_char(Head(s), UpperCase, LowerCase) \o lower(Tail(s))

RECURSIVE has_char(_, _)
has_char(s, ch) ==
    IF s = "" THEN FALSE ELSE Head(s) = ch \/ has_char(Tail(s), ch)

\* re.compile(pat) raises re.error for a group that is opened and not closed.
re_compile_raises(pat) == has_char(pat, "(") /\ ~has_char(pat, ")")

\* The pattern matches at the start of s: a "." of the pattern matches any
\* character, any other character of the model's patterns matches itself.
RECURSIVE re_match_here(_, _)
re_match_here(pat, s) ==
    IF pat = "" THEN TRUE
    ELSE IF s = "" THEN FALSE
    ELSE /\ (Head(pat) = "." \/ Head(pat) = Head(s))
         /\ re_match_here(Tail(pat), Tail(s))

\* re.search(pat, s) finds a match.
RECURSIVE re_search(_, _)
re_search(pat, s) ==
    \/ re_match_here(pat, s)
    \/ (s # "" /\ re_search(pat, Tail(s)))

\* Series.str.contains(pat, case=False, na=False) on one cell: pat is a
\* regular expression (regex=True is the default) matched with
\* re.IGNORECASE, that is on the lower-cased pattern and text; a missing
\* value gives False.
str_contains_cell(c, pat) ==
    IF c.kind # "str" THEN FALSE ELSE re_search(lower(pat), lower(c.text))

\* Series.str raises AttributeError for a column that is not of strings;
\* str.contains raises re.error for a pattern that does not compile.
str_contains_raises(df, col, pat) ==
    ~dtype_is_object(df, col) \/ re_compile_raises(pat)

SearchColumns == <<"BESKRYWING VAN PROJEK", "ANKERGEMEENSKAP", "PROJEKEIENAAR">>

\* Lines 529-540: [raised, df].
search_projects(df, search_text) ==
    IF search_text = "" THEN [raised |-> FALSE, df |-> df]
    ELSE IF \E k \in DOMAIN SearchColumns : str_contains_raises(df, SearchColumns[k], search_text)
    THEN [raised |-> TRUE, df |-> <<>>]
    ELSE LET mask(r) == \E k \in DOMAIN SearchColumns :
                            str_contains_cell(r[SearchColumns[k]], search_text)
         IN [raised |-> FALSE, df |-> SelectSeq(df, mask)]

\* Lines 542-550.
filter_owner_district(df, selected_owners, selected_districts) ==
    LET by_owner(r) == isin(r["PROJEKEIENAAR"], selected_owners)
        by_district(r) == isin(r["DISTRIK"], selected_districts)
        df1 == IF selected_owners # {} THEN SelectSeq(df, by_owner) ELSE df
    IN IF selected_districts # {} THEN SelectSeq(df1, by_district) ELSE df1

SearchRows ==
    {[DefaultRow EXCEPT !["BESKRYWING VAN PROJEK"] = b, !["ANKERGEMEENSKAP"] = a,
                        !["PROJEKEIENAAR"] = e] :
        b \in {Str("Skool ABC"), Str("Kliniek")},
        a \in {Str("Pretoria"), NaN},
        e \in {Str("Anna"), Str("abc Trust")}}

SearchTexts == {"", "abc", "KLIN", "onbekend", "a.n", "("}

InitSearch == InitLoaded(LoadedDatasets(SearchRows))

\* A run that shows the projects tab with the user's search text and
\* selections; an exception ends the run.
RenderProjectsTab ==
    /\ view = NoView
    /\ \E search_text \in SearchTexts :
        LET found == search_projects(session_df[1], search_text)
        IN \E selected_owners \in {{}, {"Anna"}}, selected_districts \in {{}, {"Tshwane"}} :
            view' = [op |-> "render_projects_tab",
                     search_text |-> search_text,
                     selected_owners |-> selected_owners,
                     selected_districts |-> selected_districts,
                     raised |-> found.raised,
                     searched |-> found.df,
                     filtered_projects |->
                        IF found.raised THEN <<>>
                        ELSE filter_owner_district(found.df, selected_owners,
                                                   selected_districts)]
    /\ UNCHANGED <<uploaded_file, session_df, session_file_name, messages, load_ret>>

NextSearch == NewRun \/ RenderProjectsTab

SpecSearch == InitSearch /\ [][NextSearch]_vars

\* The query occurs in the text as it is written, letters compared without case.
OccursIn(query, text) ==
    \E i \in 1..(Len(text) + 1) :
        /\ i + Len(query) - 1 <= Len(text)
        /\ lower(SubSeq(text, i, i + Len(query) - 1)) = lower(query)

MatchesQuery(r) ==
    \E k \in DOMAIN SearchColumns :
        /\ r[SearchColumns[k]].kind = "str"
        /\ OccursIn(view.search_text, r[SearchColumns[k]].text)

quarter_order == <<"K1", "K2", "K3", "K4">>

\* Every label that is no quarter sorts first.
quarter_rank_others_first(x) ==
    IF \E k \in DOMAIN quarter_order : quarter_order[k] = x
    THEN (CHOOSE k \in DOMAIN quarter_order : quarter_order[k] = x) - 1
    ELSE 0 - 1

\* lambda x: quarter_order.index(x) if x in quarter_order else 999
quarter_rank(x) ==
    IF \E k \in DOMAIN quarter_order : quarter_order[k] = x
    THEN (CHOOSE k \in DOMAIN quarter_order : quarter_order[k] = x) - 1
    ELSE 999

\* The number of rows with % BEHAAL >= 100; a missing value compares False.
completed_count(df) ==
    LET done(r) == ~isna(r["% BEHAAL"]) /\ r["% BEHAAL"].num >= 100
    IN Len(SelectSeq(df, done))

\* "KPI-items voltooi (>=100%)" / "Aantal KPI-items" * 100: 0 / 0 is NaN.
completion_rate(completed, count) ==
    IF count = 0 THEN None ELSE Quot(100 * completed, count)

\* Lines 592-623: one row per quarter, in the order of the labels, with the
\* column sort_order.
\*   count = "Aantal KPI-items", mean = "Gem. % BEHAAL", completed =
\*   "KPI-items voltooi (>=100%)", rate = "% KPI voltooi".
quarter_agg(df) ==
    LET keys == group_keys(df, "KWARTAAL")
    IN [i \in DOMAIN keys |->
          LET rows == group_rows(df, "KWARTAAL", keys[i])
              count == agg_count(rows, "% BEHAAL")
              completed == completed_count(rows)
          IN [KWARTAAL |-> keys[i],
              count |-> count,
              mean |-> agg_mean(rows, "% BEHAAL"),
              completed |-> completed,
              rate |-> completion_rate(completed, count),
              sort_order |-> quarter_rank(keys[i])]]

\* sort_values("sort_order"), line 624: numpy's quicksort fixes no order
\* between equal keys.
sort_values_sort_order(summary) ==
    LET n == Len(summary)
        ok(p) == \A i, j \in 1..n :
                    i < j => summary[p[i]].sort_order <= summary[p[j]].sort_order
    IN {[i \in 1..n |-> summary[p[i]]] : p \in {q \in Orderings(n) : ok(q)}}

\* Lines 687-723: one row per quarter and group, in the order of the pairs
\* of labels, with the column sort_order.
detail_agg(df, grouping_choice) ==
    LET quarters == group_keys(df, "KWARTAAL")
        groups == group_keys(df, grouping_choice)
        pair_rows(q, g) == group_rows(group_rows(df, "KWARTAAL", q), grouping_choice, g)
        pairs == SelectSeq(
                    [k \in 1..(Len(quarters) * Len(groups)) |->
                        <<quarters[((k - 1) \div Len(groups)) + 1],
                          groups[((k - 1) % Len(groups)) + 1]>>],
                    LAMBDA qg : pair_rows(qg[1], qg[2]) # <<>>)
    IN [i \in DOMAIN pairs |->
          LET rows == pair_rows(pairs[i][1], pairs[i][2])
              count == agg_count(rows, "% BEHAAL")
              completed == completed_count(rows)
          IN [KWARTAAL |-> pairs[i][1],
              group |-> pairs[i][2],
              count |-> count,
              mean |-> agg_mean(rows, "% BEHAAL"),
              completed |-> completed,
              rate |-> completion_rate(completed, count),
              sort_order |-> quarter_rank(pairs[i][1])]]

\* sort_values(["sort_order", grouping_choice]), lines 724-726: by the rank,
\* then by the group label; the sort on several columns is stable.
sort_values_detail(detail) ==
    LET n == Len(detail)
        before(a, b) ==
            \/ detail[a].sort_order < detail[b].sort_order
            \/ /\ detail[a].sort_order = detail[b].sort_order
               /\ \/ str_lt(detail[a].group, detail[b].group)
                  \/ (detail[a].group = detail[b].group /\ a < b)
        p == CHOOSE q \in Orderings(n) : \A i, j \in 1..n : i < j => before(q[i], q[j])
    IN [i \in 1..n |-> detail[p[i]]]

QuarterRows ==
    {[DefaultRow EXCEPT !["KWARTAAL"] = k, !["% BEHAAL"] = bv[1],
                        !["2030 TOEKOMSVISIE"] = bv[2]] :
        k \in {Str("K1"), Str("K2"), Str("K3"), Str("K4"), Str("Ander"), NaN},
        bv \in {<<Num(50), Str("Visie A")>>, <<Num(100), Str("Visie B")>>,
                <<NaN, Str("Visie A")>>}}

InitQuarterly == InitLoaded(LoadedDatasets(QuarterRows))

\* A run that shows the quarterly tab.  The frames are recorded before
\* sort_order is dropped; the display columns are those of lines 630-636 and
\* 728-734.
RenderQuarterlyProgressTab ==
    /\ view = NoView
    /\ \E grouping_choice \in GroupingModes :
       \E quarter_summary \in sort_values_sort_order(quarter_agg(session_df[1])) :
        LET detail_summary == sort_values_detail(detail_agg(session_df[1], grouping_choice))
        IN view' = [op |-> "render_quarterly_progress_tab",
                    grouping_choice |-> grouping_choice,
                    quarter_summary |-> quarter_summary,
                    display_rate |-> [i \in DOMAIN quarter_summary |->
                                        format_percentage(quarter_summary[i].rate)],
                    display_mean |-> [i \in DOMAIN quarter_summary |->
                                        format_percentage(quarter_summary[i].mean)],
                    detail_summary |-> detail_summary,
                    detail_display_rate |-> [i \in DOMAIN detail_summary |->
                                        format_percentage(detail_summary[i].rate)]]
    /\ UNCHANGED <<uploaded_file, session_df, session_file_name, messages, load_ret>>

NextQuarterly == NewRun \/ RenderQuarterlyProgressTab

SpecQuarterly == InitQuarterly /\ [][NextQuarterly]_vars

\* The rows of a quarter that reached 100 %.
CompletedOfGroup(key) ==
    {i \in RowsOfGroup("KWARTAAL", key) :
        /\ ~isna(session_df[1][i]["% BEHAAL"])
        /\ session_df[1][i]["% BEHAAL"].num >= 100}

\* C3: for a quarter of N rows, with or without % BEHAAL, of which K reached
\* 100 %, "% KPI voltooi" is 100 * K / N and is shown as that percentage; it
\* is absent, and shown as "-", only when N is 0.
C3_CompletionRateOverAllRows ==
    view.op = "render_quarterly_progress_tab" =>
        \A i \in DOMAIN view.quarter_summary :
            LET row == view.quarter_summary[i]
                N == Cardinality(RowsOfGroup("KWARTAAL", row.KWARTAAL))
                K == Cardinality(CompletedOfGroup(row.KWARTAAL))
            IN /\ view.display_rate[i] # "nan"
               /\ (N = 0) <=> (row.rate = None)
               /\ (N = 0) <=> (view.display_rate[i] = "-")
               /\ N > 0 => (row.rate # None /\ row.rate[1].n * N = row.rate[1].d * 100 * K)

\* The rank of a quarter label as the claim gives it.
RankOf(label) ==
    CASE label = "K1" -> 0
      [] label = "K2" -> 1
      [] label = "K3" -> 2
      [] label = "K4" -> 3
      [] OTHER -> 999

NonDecreasingRank(frame) ==
    /\ \A i \in DOMAIN frame : frame[i].sort_order = RankOf(frame[i].KWARTAAL)
    /\ \A i, j \in DOMAIN frame :
        i < j => RankOf(frame[i].KWARTAAL) <= RankOf(frame[j].KWARTAAL)

\* C10: the rank of "K1", "K2", "K3", "K4" is 0, 1, 2, 3 and that of every
\* other label 999, and the rows of the quarterly summary and of the
\* quarterly detail are in non-decreasing order of the rank.
C10_QuarterRankOrder ==
    view.op = "render_quarterly_progress_tab" =>
        /\ NonDecreasingRank(view.quarter_summary)
        /\ NonDecreasingRank(view.detail_summary)
        /\ {view.quarter_summary[i].KWARTAAL : i \in DOMAIN view.quarter_summary}
              = ValuesOf("KWARTAAL")
        /\ {view.detail_summary[i].KWARTAAL : i \in DOMAIN view.detail_summary}
              = ValuesOf("KWARTAAL")

\* A summary in which a quarter follows a label that sorts before it as text
\* and is no quarter.
C10_Witness ==
    /\ view.op = "render_quarterly_progress_tab"
    /\ Len(view.quarter_summary) = 2 /\ Len(view.detail_summary) = 2
    /\ view.quarter_summary[1].KWARTAAL = "K4"
    /\ view.quarter_summary[2].KWARTAAL = "Ander"
    /\ view.detail_summary[1].KWARTAAL = "K4"
    /\ view.detail_summary[2].KWARTAAL = "Ander"

(***************************************************************************)
(* main once the data is loaded (lines 178-218): the DataFrame objects of  *)
(* a run that hold rows of the dataset, and the statements that assign     *)
(* into one.  A store is a function from the name the source binds an      *)
(* object to, to the rows the object holds.  The summaries (the results of *)
(* groupby, agg and merge, and their copies) hold no row of the dataset    *)
(* and are not objects of the store.                                       *)
(***************************************************************************)

\* The object st.session_state.df refers to; df of line 178 is a second
\* name of it.
SessionObject == "st.session_state.df"

\* A statement that makes a frame (copy, a selection of rows or columns,
\* sort_values) and binds name to it.
new_object(store, name, rows) ==
    [o \in DOMAIN store \cup {name} |-> IF o = name THEN rows ELSE store[o]]

\* name = df.copy()
copy(store, df, name) == new_object(store, name, store[df])

\* df[df[col] == value][cols]
select_rows_columns(rows, col, value, cols) ==
    LET equal(r) == r[col] = Str(value)
        selected == SelectSeq(rows, equal)
    IN [i \in DOMAIN selected |-> [c \in cols |-> selected[i][c]]]

\* Series.apply(format_percentage) on the column % BEHAAL of rows.
apply_format_percentage(rows) ==
    [i \in DOMAIN rows |->
        [rows[i] EXCEPT !["% BEHAAL"] =
            Str(format_percentage(IF isna(@) THEN None ELSE Quot(@.num, 1)))]]

\* The assignment written through to every object of the run, as if the
\* objects shared their data.
setitem_format_percentage_shared_data(store, name) ==
    [o \in DOMAIN store |-> apply_format_percentage(store[o])]

\* name["% BEHAAL"] = name["% BEHAAL"].apply(format_percentage): the
\* assignment replaces the column of the object name, in place.
setitem_format_percentage(store, name) ==
    [store EXCEPT ![name] = apply_format_percentage(store[name])]

\* render_executive_overview (lines 225-303): it computes summaries of df;
\* the headline selection may raise.  [raised, store].
render_executive_overview_objects(store, df) ==
    LET visie == best_group(group_agg(store[df], "2030 TOEKOMSVISIE"))
        fokus == best_group(group_agg(store[df], "2026 FOKUS"))
    IN [raised |-> visie.raised \/ fokus.raised, store |-> store]

\* The columns of detail_df (lines 345-355).
StrategyDetailColumns ==
    {"% BEHAAL", "BESKRYWING VAN PROJEK", "ANKERGEMEENSKAP", "PROVINSIE", "DISTRIK",
     "PROJEKEIENAAR", "TEIKEN", "UITSET", "KWARTAAL"}

\* render_strategy_tab (lines 316-361): without a group the tab ends at
\* line 336; otherwise detail_df holds the rows of the selected group and
\* its column % BEHAAL is assigned.
render_strategy_tab_objects(store, df, grouping_mode, selected_group) ==
    IF group_keys(store[df], grouping_mode) = <<>> THEN store
    ELSE setitem_format_percentage(
            new_object(store, "detail_df",
                       select_rows_columns(store[df], grouping_mode, selected_group,
                                           StrategyDetailColumns)),
            "detail_df")

\* The columns of anchor_detail (lines 454-466); project_detail (lines
\* 554-568) has all twelve columns.
AnchorDetailColumns == Columns \ {"ANKERGEMEENSKAP"}

\* render_geography_tab (lines 369-475): the four summaries, then
\* anchor_detail with the rows of the selected anchor community, whose
\* column % BEHAAL is assigned.
render_geography_tab_objects(store, df, selected_anchor) ==
    IF group_keys(store[df], "ANKERGEMEENSKAP") = <<>> THEN store
    ELSE setitem_format_percentage(
            new_object(store, "anchor_detail",
                       select_rows_columns(store[df], "ANKERGEMEENSKAP", selected_anchor,
                                           AnchorDetailColumns)),
            "anchor_detail")

\* DataFrame.sort_values("% BEHAAL") on rows of the dataset: ascending, the
\* rows without a value last in their order, no order fixed between equal
\* values: the set of the frames the sort may give.
sort_values_behaal(rows) ==
    LET n == Len(rows)
        ok(p) == \A i, j \in 1..n : i < j =>
                    LET a == rows[p[i]]["% BEHAAL"]
                        b == rows[p[j]]["% BEHAAL"]
                    IN /\ isna(a) => (isna(b) /\ p[i] < p[j])
                       /\ (~isna(a) /\ ~isna(b)) => a.num <= b.num
    IN {[i \in 1..n |-> rows[p[i]]] : p \in {q \in Orderings(n) : ok(q)}}

\* render_projects_tab (lines 482-576): filtered_projects is a copy of df
\* that the search and the two selections replace by new frames;
\* project_detail is a sorted copy of it whose column % BEHAAL is assigned.
\* The set of [raised, store] the tab may end with.
render_projects_tab_objects(store, df, search_text, selected_owners, selected_districts) ==
    LET copied == copy(store, df, "filtered_projects")
        found == search_projects(copied["filtered_projects"], search_text)
        filtered == new_object(copied, "filtered_projects",
                               filter_owner_district(found.df, selected_owners,
                                                     selected_districts))
    IN IF found.raised THEN {[raised |-> TRUE, store |-> copied]}
       ELSE {[raised |-> FALSE,
              store |-> setitem_format_percentage(
                            new_object(filtered, "project_detail", detail),
                            "project_detail")] :
                detail \in sort_values_behaal(filtered["filtered_projects"])}

\* render_quarterly_progress_tab (lines 583-753): it computes summaries of
\* df and assigns into them only.
render_quarterly_progress_tab_objects(store, df) == store

\* Lines 195-218: the five tabs in turn over filtered_df with the
\* selections sel of their widgets; an exception ends the run.  The set of
\* [raised, store] the run may end with.
render_tabs(store, sel) ==
    LET overview == render_executive_overview_objects(store, "filtered_df")
        strategy == render_strategy_tab_objects(overview.store, "filtered_df",
                                                sel.grouping_mode, sel.selected_group)
        geography == render_geography_tab_objects(strategy, "filtered_df",
                                                  sel.selected_anchor)
    IN IF overview.raised THEN {overview}
       ELSE {IF projects.raised THEN projects
             ELSE [raised |-> FALSE,
                   store |-> render_quarterly_progress_tab_objects(projects.store,
                                                                   "filtered_df")] :
                projects \in render_projects_tab_objects(geography, "filtered_df",
                                                         sel.search_text,
                                                         sel.selected_owners,
                                                         sel.selected_districts)}

\* The options of a selectbox over labels; it has no value without options.
Options(labels) ==
    IF labels = <<>> THEN {""} ELSE {labels[i] : i \in DOMAIN labels}

ViewSearchTexts == {"", "projek", "("}

\* A run once the data is loaded (lines 178-218) with the selections of the
\* widgets: df names the session's object, filtered_df is a copy of it, and
\* the tabs are rendered over filtered_df unless it is empty.  After the run
\* the session holds what its object holds.
RenderTabs ==
    /\ session_df # None
    /\ view = NoView
    /\ LET loaded == [o \in {SessionObject} |-> session_df[1]]
           copied == copy(loaded, SessionObject, "filtered_df")
       IN IF copied["filtered_df"] = <<>>
          THEN /\ messages' = {"success", "warning"}
               /\ view' = [op |-> "main", tabs |-> FALSE, raised |-> FALSE,
                           store |-> copied]
               /\ session_df' = Some(copied[SessionObject])
          ELSE \E grouping_mode \in GroupingModes, search_text \in ViewSearchTexts,
                  selected_owners \in {{}, {"Anna"}},
                  selected_districts \in {{}, {"Tshwane"}} :
               \E selected_group \in Options(group_keys(copied["filtered_df"],
                                                        grouping_mode)),
                  selected_anchor \in Options(group_keys(copied["filtered_df"],
                                                         "ANKERGEMEENSKAP")) :
               \E ended \in render_tabs(copied,
                                        [grouping_mode |-> grouping_mode,
                                         selected_group |-> selected_group,
                                         selected_anchor |-> selected_anchor,
                                         search_text |-> search_text,
                                         selected_owners |-> selected_owners,
                                         selected_districts |-> selected_districts]) :
                    /\ messages' = {"success"}
                    /\ view' = [op |-> "main", tabs |-> TRUE, raised |-> ended.raised,
                                store |-> ended.store]
                    /\ session_df' = Some(ended.store[SessionObject])
    /\ load_ret' = NoLoad
    /\ UNCHANGED <<uploaded_file, session_file_name>>

NextViews == SelectFile \/ ClickLoad \/ NewRun \/ ApplyFilters \/ RenderTabs

SpecViews == Init /\ [][NextViews]_vars

\* C11: the loaded dataset is read-only.  No run of the views (apply_filters,
\* the five tabs and the summaries they compute, with any selections and
\* search text) changes the dataset the session holds: it keeps the rows,
\* values, columns and row order it had when it was loaded; and the frame
\* the tabs of a run share holds after the run what the session holds.
C11_DatasetReadOnly ==
    /\ [][session_df # None => session_df' = session_df]_vars
    /\ [](view.op = "main" => view.store["filtered_df"] = session_df[1])

\* A run that rendered the five tabs and assigned the formatted percentage
\* into the detail frames, over a session whose dataset holds the number.
C11_Witness ==
    /\ view.op = "main"
    /\ view.tabs
    /\ ~view.raised
    /\ {"detail_df", "anchor_detail", "project_detail"} \subseteq DOMAIN view.store
    /\ \E i \in DOMAIN view.store["project_detail"] :
        view.store["project_detail"][i]["% BEHAAL"] = Str("50.0%")
    /\ \E i \in DOMAIN session_df[1] : session_df[1][i]["% BEHAAL"] = Num(50)


(***************************************************************************)
(* The lifetime of the session's dataset (lines 139-173).                  *)
(***************************************************************************)

\* C12 as stated: from a state in which a dataset is loaded, a new file can
\* be supplied, and loading it stores the dataset of that file together
\* with the file's name.
C12_NewFileReplacesDataset ==
    session_df # None =>
        /\ ENABLED SelectFile
        /\ ENABLED (/\ ClickLoad
                    /\ session_df' = load_data(uploaded_file).df
                    /\ session_file_name' = Some(uploaded_file[1].name))

\* C12, amended: the dataset and the file name are stored together by the
\* first successful load, from the file the uploader holds, and are kept for
\* the rest of the session: once a dataset is loaded no run supplies another
\* file, and no run changes the dataset or the file name.
C12_DatasetKeptForSession ==
    /\ [][(session_df = None /\ session_df' # None) =>
            /\ session_df' = load_data(uploaded_file).df
            /\ session_file_name = None
            /\ session_file_name' = Some(uploaded_file[1].name)]_vars
    /\ [][session_df # None =>
            /\ uploaded_file' = uploaded_file
            /\ session_df' = session_df
            /\ session_file_name' = session_file_name]_vars

\* A run that rendered the tabs over the dataset of the file that was
\* loaded: the session holds the dataset and the name of that file.
C12_Witness ==
    /\ view.op = "main"
    /\ uploaded_file # None
    /\ session_df = load_data(uploaded_file).df
    /\ session_file_name = Some(uploaded_file[1].name)
    /\ Len(session_df[1]) = MaxRows


\* C13: in every state of the session the dataset is absent exactly when
\* the file name is, and a dataset the session holds has at least one row (a
\* load that gives no rows stores nothing); so every run that passes the
\* upload gate renders the tabs, over a dataset with rows, and the warning
\* for an empty dataset (line 189) is never shown.
C13_DatasetAndNameTogether ==
    /\ (session_df = None) <=> (session_file_name = None)
    /\ session_df # None => session_df[1] # <<>>
    /\ view.op = "main" => (view.tabs /\ view.store["filtered_df"] # <<>>)
    /\ ~({"success", "warning"} \subseteq messages)

\* A load of a sheet that has its columns and no rows: load_data returns a
\* dataset without rows and no error, and the session holds nothing.
C13_Witness ==
    /\ load_ret.called
    /\ ~load_ret.error
    /\ load_ret.df = Some(<<>>)
    /\ session_df = None
    /\ session_file_name = None
    /\ "info" \in messages

=============================================================================
